---- MODULE Spec2Model ----
(***************************************************************************)
(* Model of src/src/misty.ts: the Misty2Robot class.                       *)
(*                                                                         *)
(* Numbers.  The JavaScript numbers of the class are modelled in exact     *)
(* fixed point:                                                            *)
(*   - a gamepad axis value is held in thousandths  (1.0   = 1000),        *)
(*   - a head rotation is held in hundredths        (1.0   = 100),         *)
(*   - the results of mapAnalogValues and the fields of the commands are   *)
(*     the integers the code computes.                                     *)
(* The scaling of mapAnalogValues is the floor of the exact value, less    *)
(* one at the axis values of DoubleSlips, at which the double arithmetic   *)
(* of the code comes out just below an integer.                            *)
(* Arrays are indexed from 1 here and from 0 in the code: gamepad.axes[0]  *)
(* is gamepad[1], headRotation[0] is headRotation[1].                      *)
(***************************************************************************)
EXTENDS Integers, Sequences, FiniteSets, TLC

VARIABLES
    headRotation,      \* this.headRotation, in hundredths
    framesToMoveHead,  \* this.framesToMoveHead
    framesToMoveBody,  \* this.framesToMoveBody
    frame,             \* the locals of the most recent call of update
    cmds,              \* the requests the most recent call of update issued
    calls,             \* number of calls of update since construction
    headSent,          \* number of requests to /api/head since construction
    driveSent,         \* number of requests to /api/drive since construction
    commands,          \* the requests to /api/head and /api/drive, in the
                       \* order issued, each pending, ok or failed
    ws,                \* this.ws: 0 for undefined, else an index of sockets
    streams,           \* the calls of getVideoStream, in the order made
    sockets,           \* the WebSocket objects, in the order created
    stops,             \* the requests to /api/videostreaming/stop, in order
    reboots            \* the calls of restart, in the order made

mapperVars ==
    <<headRotation, framesToMoveHead, framesToMoveBody, frame, cmds, calls,
      headSent, driveSent, commands>>

sessionVars ==
    <<ws, streams, sockets, stops>>

vars ==
    <<headRotation, framesToMoveHead, framesToMoveBody, frame, cmds, calls,
      headSent, driveSent, commands, ws, streams, sockets, stops, reboots>>

----------------------------------------------------------------------------
(* Program constants. *)

\* this.sensitivity = 0.02: hundredths of head rotation per unit of head value
sensitivity ==
    2

\* one unit of head rotation: sensitivity is 0.02 = 2 / HeadUnit
HeadUnit ==
    100

\* this.deadzone = 0.1, in thousandths
deadzone ==
    100

\* mapAnalogValues: minX = -1, maxX = 1 (thousandths); minY = -100, maxY = 100
minX ==
    -1000

maxX ==
    1000

minY ==
    -100

maxY ==
    100

\* update: clamp(this.headRotation[i], -100, 100), in hundredths
HeadMin ==
    -100 * HeadUnit

HeadMax ==
    100 * HeadUnit

\* moveHead: ++this.framesToMoveHead == 180
MoveHeadFrames ==
    180

\* move: ++this.framesToMoveBody == 180
MoveBodyFrames ==
    180

\* moveHead: "Velocity": 100
HeadVelocity ==
    100

\* getVideoStream: "Port": 5678, "Rotation": 90
StreamPort ==
    5678

StreamRotation ==
    90

\* constructor defaults: videoQuality = 100, imageWidth = 400, imageHeight = 540
videoQuality ==
    100

imageWidth ==
    400

imageHeight ==
    540

----------------------------------------------------------------------------
(* Bounds of the model and the inputs it enumerates. *)

\* update is called at most MaxCalls times on a freshly constructed robot
MaxCalls ==
    361

\* getVideoStream is called at most MaxStarts times, restart MaxRestarts times
MaxStarts ==
    2

MaxRestarts ==
    1

\* The statuses the robot answers a start request with
Statuses ==
    {200, 404, 500}

\* Why a socket closes: the robot closes it, the network fails, the client
\* calls close()
CloseReasons ==
    {"remote", "network", "client"}

\* The samples of the frames around a command: sticks at rest, sticks pushed
Rest ==
    { <<0, 0, 0, 0>>, <<1000, -755, 550, -1000>> }

\* The samples of a long run beside a session: sticks at rest, drive stick pushed
Drive ==
    { <<0, 0, 0, 0>>, <<1000, -755, 0, 0>> }

\* Axis values (thousandths) around the deadzone, inside it, fractional
\* hundredths and the ends of the range.
Axes ==
    {-1000, -755, -100, -99, -1, 0, 99, 100, 101, 550, 1000}

\* The samples of a long run: full deflection of both sticks either way, sticks
\* at rest, and drive-stick values inside and outside the deadzone while the
\* head stick keeps pushing.
Sweep ==
    { <<0, 0, 0, 0>>,
      <<1000, 1000, 1000, 1000>>,
      <<-1000, -1000, -1000, -1000>>,
      <<-755, 99, 1000, 1000>>,
      <<100, -99, -1000, -1000>> }

\* The samples of a single frame: each axis in turn takes every value of Axes
\* while the other three rest, and a few samples move both sticks at once.
Gamepads ==
    { [i \in 1..4 |-> IF i = k THEN v ELSE 0] : k \in 1..4, v \in Axes }
        \cup Sweep
        \cup { <<550, -755, -99, 101>>, <<-100, 100, 550, -755>>,
               <<99, -1, -1000, 550>>, <<99, -1, -99, 1>> }

\* Head rotations (hundredths) a driven robot can hold: the ends of the range,
\* values one frame from them, and whole and fractional values either side of 0
HeadStarts ==
    {-10000, -9950, -150, 0, 50, 9950}

----------------------------------------------------------------------------
(* The pure helpers of the class. *)

\* Math.floor(n / d) for d > 0
Floor(n, d) ==
    n \div d

\* Math.floor in the place of Math.trunc
TruncAsFloor(v) ==
    v \div HeadUnit

\* Math.trunc of a value held in hundredths
Trunc(v) ==
    IF v >= 0 THEN v \div HeadUnit ELSE -((-v) \div HeadUnit)

Max(a, b) ==
    IF a >= b THEN a ELSE b

Min(a, b) ==
    IF a <= b THEN a ELSE b

\* clamp without its upper bound
clampNoMax(value, min, max) ==
    Max(min, value)

\* clamp(value, min, max): Math.max(min, Math.min(value, max))
clamp(value, min, max) ==
    Max(min, Min(value, max))

\* no deadzone at all
applyDeadzoneNone(v, dz) ==
    v

\* a deadzone that also swallows its two boundary values
applyDeadzoneInclusive(v, dz) ==
    IF v <= dz /\ v >= -dz THEN 0 ELSE v

\* One axis of readAnalogSticks
applyDeadzone(v, dz) ==
    IF v < dz /\ v > -dz THEN 0 ELSE v

\* readAnalogSticks(gamepad, deadzone)
readAnalogSticks(gamepad, dz) ==
    << applyDeadzone(gamepad[1], dz), applyDeadzone(gamepad[2], dz),
       applyDeadzone(gamepad[3], dz), applyDeadzone(gamepad[4], dz) >>

\* Math.round in the place of Math.floor
scaleRounded(v) ==
    Floor(2 * ((v - minX) * (maxY - minY) + minY * (maxX - minX)) + (maxX - minX),
          2 * (maxX - minX))

\* Math.trunc in the place of Math.floor
scaleTruncated(v) ==
    LET n == (v - minX) * (maxY - minY) + minY * (maxX - minX)
        d == maxX - minX
    IN  IF n >= 0 THEN n \div d ELSE -((-n) \div d)

\* The axis values, among the multiples of 0.001 in [-1, 1], at which the
\* expression (v - minX) / (maxX - minX) * (maxY - minY) + minY, evaluated
\* left to right in IEEE-754 doubles as the code evaluates it, comes out just
\* below the integer 100 * v (0.13 gives 12.999999999999986), so that
\* Math.floor returns one less than the floor of the exact value.  At every
\* other multiple of 0.001 the double evaluation and the exact value have
\* the same floor.
DoubleSlips ==
    { -560, -550, -340, 130, 150, 160, 570, 820 }

\* One axis of mapAnalogValues:
\* Math.floor((v - minX) / (maxX - minX) * (maxY - minY) + minY)
scale(v) ==
    Floor((v - minX) * (maxY - minY) + minY * (maxX - minX), maxX - minX)
        - (IF v \in DoubleSlips THEN 1 ELSE 0)

\* mapAnalogValues(x, y)
mapAnalogValues(x, y) ==
    << scale(x), scale(y) >>

----------------------------------------------------------------------------
(* moveHead and move: the new counter and the requests issued. *)

HeadCommand(pitch, yaw) ==
    [api |-> "head", Pitch |-> pitch, Yaw |-> yaw, Velocity |-> HeadVelocity]

DriveCommand(linearVelocity, angularVelocity) ==
    [api |-> "drive", LinearVelocity |-> linearVelocity,
     AngularVelocity |-> angularVelocity]

\* moveHead leaving its counter running when it sends
moveHeadNoReset(frames, pitch, yaw) ==
    IF frames + 1 = MoveHeadFrames
        THEN [frames |-> frames + 1, sent |-> << HeadCommand(pitch, yaw) >>]
        ELSE [frames |-> frames + 1, sent |-> << >>]

\* moveHead comparing before it increments (this.framesToMoveHead++ == 180)
moveHeadPostIncrement(frames, pitch, yaw) ==
    IF frames = MoveHeadFrames
        THEN [frames |-> 0, sent |-> << HeadCommand(pitch, yaw) >>]
        ELSE [frames |-> frames + 1, sent |-> << >>]

\* moveHead(pitch, yaw), called with this.framesToMoveHead = frames
moveHead(frames, pitch, yaw) ==
    IF frames + 1 = MoveHeadFrames
        THEN [frames |-> 0, sent |-> << HeadCommand(pitch, yaw) >>]
        ELSE [frames |-> frames + 1, sent |-> << >>]

\* move comparing before it increments (this.framesToMoveBody++ == 180)
movePostIncrement(frames, linearVelocity, angularVelocity) ==
    IF frames = MoveBodyFrames
        THEN [frames |-> 0,
              sent |-> << DriveCommand(linearVelocity, angularVelocity) >>]
        ELSE [frames |-> frames + 1, sent |-> << >>]

\* move sending its two arguments in each other's place
moveSwapped(frames, linearVelocity, angularVelocity) ==
    IF frames + 1 = MoveBodyFrames
        THEN [frames |-> 0,
              sent |-> << DriveCommand(angularVelocity, linearVelocity) >>]
        ELSE [frames |-> frames + 1, sent |-> << >>]

\* move(linearVelocity, angularVelocity), called with this.framesToMoveBody = frames
move(frames, linearVelocity, angularVelocity) ==
    IF frames + 1 = MoveBodyFrames
        THEN [frames |-> 0,
              sent |-> << DriveCommand(linearVelocity, angularVelocity) >>]
        ELSE [frames |-> frames + 1, sent |-> << >>]

----------------------------------------------------------------------------
(* update(gamepad) *)

\* the head value added without the sensitivity factor
accumulateUnscaled(rotation, headValue) ==
    clamp(rotation + headValue, HeadMin, HeadMax)

\* the head rotation after lines 127-130: accumulate, then clamp
accumulate(rotation, headValue) ==
    clamp(rotation + headValue * sensitivity, HeadMin, HeadMax)

\* fetch(...) of lines 76 and 95, called without await and without a handler
\* on the promise it returns: the request is in flight when the call returns
dispatched(sent) ==
    [n \in DOMAIN sent |-> [api |-> sent[n].api, phase |-> "pending"]]

update(gamepad) ==
    LET stickValues == readAnalogSticks(gamepad, deadzone)
        headValues  == mapAnalogValues(stickValues[3], stickValues[4])
        rot1        == accumulate(headRotation[1], headValues[1])
        rot2        == accumulate(headRotation[2], headValues[2])
        driveValues == mapAnalogValues(stickValues[1], stickValues[2])
        head        == moveHead(framesToMoveHead, Trunc(rot2), -Trunc(rot1))
        body        == move(framesToMoveBody, driveValues[2], driveValues[1])
    IN  /\ headRotation' = << rot1, rot2 >>
        /\ framesToMoveHead' = head.frames
        /\ framesToMoveBody' = body.frames
        /\ cmds' = head.sent \o body.sent
        /\ headSent' = headSent + Len(head.sent)
        /\ driveSent' = driveSent + Len(body.sent)
        /\ commands' = commands \o dispatched(head.sent \o body.sent)
        /\ calls' = calls + 1
        /\ frame' = [gamepad     |-> gamepad,
                     stickValues |-> stickValues,
                     headValues  |-> headValues,
                     unclamped   |-> << headRotation[1] + headValues[1] * sensitivity,
                                        headRotation[2] + headValues[2] * sensitivity >>,
                     driveValues |-> driveValues]
        /\ UNCHANGED <<ws, streams, sockets, stops, reboots>>

NoFrame ==
    [gamepad     |-> << 0, 0, 0, 0 >>,
     stickValues |-> << 0, 0, 0, 0 >>,
     headValues  |-> << 0, 0 >>,
     unclamped   |-> << 0, 0 >>,
     driveValues |-> << 0, 0 >>]

\* a completion that issues a failed request once more
commandDoneRetried(j, ok) ==
    /\ commands[j].phase = "pending"
    /\ commands' = IF ok THEN [commands EXCEPT ![j].phase = "ok"]
                         ELSE Append([commands EXCEPT ![j].phase = "failed"],
                                     [api |-> commands[j].api, phase |-> "pending"])
    /\ UNCHANGED <<headRotation, framesToMoveHead, framesToMoveBody, frame, cmds,
                   calls, headSent, driveSent>>
    /\ UNCHANGED <<ws, streams, sockets, stops, reboots>>

\* The request j of moveHead or move completes: the promise of its fetch
\* resolves with the response or rejects; nothing awaits the promise and no
\* handler is attached to it
commandDone(j, ok) ==
    /\ commands[j].phase = "pending"
    /\ commands' = [commands EXCEPT ![j].phase = IF ok THEN "ok" ELSE "failed"]
    /\ UNCHANGED <<headRotation, framesToMoveHead, framesToMoveBody, frame, cmds,
                   calls, headSent, driveSent>>
    /\ UNCHANGED <<ws, streams, sockets, stops, reboots>>

----------------------------------------------------------------------------
(* getVideoStream and the close handler it installs. *)

\* The body of the request to /api/videostreaming/start
StartRequest ==
    [Port |-> StreamPort, Rotation |-> StreamRotation, Width |-> imageWidth,
     Height |-> imageHeight, Quality |-> videoQuality]

\* getVideoStream up to its await: the request is issued and the call waits
getVideoStream ==
    /\ streams' = Append(streams, [phase    |-> "fetching",
                                   requests |-> << StartRequest >>,
                                   status   |-> 0,
                                   socket   |-> 0,
                                   error    |-> "none"])
    /\ UNCHANGED <<ws, sockets, stops, reboots>>
    /\ UNCHANGED mapperVars

\* a start that opens the socket on any answer but a server error
startedUnlessServerError(status) ==
    status < 500

\* response.status === 200
started(status) ==
    status = 200

\* new WebSocket(...) with the onclose handler of lines 57-62; a socket is
\* "open" from its creation until its close event
newSocket ==
    [readyState |-> "open", onclose |-> "stop"]

\* getVideoStream after its await, call i, the response carrying `status`
startResponse(i, status) ==
    /\ streams[i].phase = "fetching"
    /\ IF started(status)
          THEN /\ sockets' = Append(sockets, newSocket)
               /\ ws' = Len(sockets) + 1
               /\ streams' = [streams EXCEPT ![i].phase = "returned",
                                             ![i].status = status,
                                             ![i].socket = Len(sockets) + 1]
          ELSE /\ streams' = [streams EXCEPT ![i].phase = "thrown",
                                             ![i].status = status,
                                             ![i].error = "Failed to start video stream."]
               /\ UNCHANGED <<ws, sockets>>
    /\ UNCHANGED <<stops, reboots>>
    /\ UNCHANGED mapperVars

\* The awaited fetch of call i rejects (no response): the rejection leaves
\* getVideoStream through the await
startRejected(i) ==
    /\ streams[i].phase = "fetching"
    /\ streams' = [streams EXCEPT ![i].phase = "thrown", ![i].error = "fetch"]
    /\ UNCHANGED <<ws, sockets, stops, reboots>>
    /\ UNCHANGED mapperVars

\* a close that issues the stop request whatever handler onclose holds
oncloseAnyHandler(h, k) ==
    << [socket |-> k, phase |-> "pending"] >>

\* The requests the close handler named h issues when socket k closes:
\* the handler of lines 57-62 issues one stop request, a handler of the caller none
onclose(h, k) ==
    IF h = "stop" THEN << [socket |-> k, phase |-> "pending"] >> ELSE << >>

\* a close that also restarts the head counter
socketCloseResetting(k, reason) ==
    /\ sockets[k].readyState # "closed"
    /\ sockets' = [sockets EXCEPT ![k].readyState = "closed"]
    /\ stops' = stops \o onclose(sockets[k].onclose, k)
    /\ framesToMoveHead' = 0
    /\ UNCHANGED <<ws, streams, reboots>>
    /\ UNCHANGED <<headRotation, framesToMoveBody, frame, cmds, calls, headSent,
                   driveSent, commands>>

\* Socket k closes for `reason`; its close event runs the handler in onclose.
\* Every reason ends in the one close event of the socket, and neither handler
\* reads the event, so the reason leaves no trace in the state.
socketClose(k, reason) ==
    /\ sockets[k].readyState # "closed"
    /\ sockets' = [sockets EXCEPT ![k].readyState = "closed"]
    /\ stops' = stops \o onclose(sockets[k].onclose, k)
    /\ UNCHANGED <<ws, streams, reboots>>
    /\ UNCHANGED mapperVars

\* The stop request j completes; nothing awaits it and nothing handles its result
stopDone(j, ok) ==
    /\ stops[j].phase = "pending"
    /\ stops' = [stops EXCEPT ![j].phase = IF ok THEN "ok" ELSE "failed"]
    /\ UNCHANGED <<ws, streams, sockets, reboots>>
    /\ UNCHANGED mapperVars

\* The caller of getVideoStream assigns its own handler to the onclose of the
\* open socket that call i returned (README.md, main.js)
replaceOnclose(i) ==
    /\ streams[i].phase = "returned"
    /\ sockets[streams[i].socket].readyState = "open"
    /\ sockets[streams[i].socket].onclose = "stop"
    /\ sockets' = [sockets EXCEPT ![streams[i].socket].onclose = "caller"]
    /\ UNCHANGED <<ws, streams, stops, reboots>>
    /\ UNCHANGED mapperVars

----------------------------------------------------------------------------
(* restart *)

\* The body of the request to /api/reboot
RebootRequest ==
    [Core |-> FALSE, SensoryServices |-> TRUE]

\* a restart that issues its request a second time
restartRequestsRetried ==
    << RebootRequest, RebootRequest >>

\* The requests one call of restart issues
restartRequests ==
    << RebootRequest >>

\* restart up to its await
restart ==
    /\ reboots' = Append(reboots, [phase |-> "fetching", requests |-> restartRequests])
    /\ UNCHANGED <<ws, streams, sockets, stops>>
    /\ UNCHANGED mapperVars

\* restart after its await: any response resolves the call, a rejected fetch
\* rejects it
restartDone(j, ok) ==
    /\ reboots[j].phase = "fetching"
    /\ reboots' = [reboots EXCEPT ![j].phase = IF ok THEN "resolved" ELSE "rejected"]
    /\ UNCHANGED <<ws, streams, sockets, stops>>
    /\ UNCHANGED mapperVars

----------------------------------------------------------------------------
(* Specifications. *)

\* The state the constructor leaves
Constructed ==
    /\ headRotation = << 0, 0 >>
    /\ framesToMoveHead = 0
    /\ framesToMoveBody = 0
    /\ frame = NoFrame
    /\ cmds = << >>
    /\ calls = 0
    /\ headSent = 0
    /\ driveSent = 0
    /\ commands = << >>
    /\ ws = 0
    /\ streams = << >>
    /\ sockets = << >>
    /\ stops = << >>
    /\ reboots = << >>

\* A long run of frames on a fresh robot
Update ==
    /\ calls < MaxCalls
    /\ \E gamepad \in Sweep : update(gamepad)

InitFrames ==
    Constructed

NextFrames ==
    Update

SpecFrames ==
    InitFrames /\ [][NextFrames]_vars

\* The last two frames before a command is due, on a robot that has been
\* driven for MoveHeadFrames - 2 frames
UpdateDue ==
    /\ calls < MoveHeadFrames
    /\ \E gamepad \in Gamepads : update(gamepad)

InitDue ==
    /\ headRotation \in HeadStarts \X HeadStarts
    /\ framesToMoveHead = MoveHeadFrames - 2
    /\ framesToMoveBody = MoveBodyFrames - 2
    /\ frame = NoFrame
    /\ cmds = << >>
    /\ calls = MoveHeadFrames - 2
    /\ headSent = 0
    /\ driveSent = 0
    /\ commands = << >>
    /\ ws = 0
    /\ streams = << >>
    /\ sockets = << >>
    /\ stops = << >>
    /\ reboots = << >>

NextDue ==
    UpdateDue

SpecDue ==
    InitDue /\ [][NextDue]_vars

\* The whole robot: the video stream, restart, and the frame of a command and
\* the frame after it, on a robot driven with its sticks at rest until one
\* frame before the command
UpdateRobot ==
    /\ calls < MoveHeadFrames + 1
    /\ \E gamepad \in Rest : update(gamepad)

GetVideoStream ==
    /\ Len(streams) < MaxStarts
    /\ getVideoStream

StartResponse ==
    \E i \in DOMAIN streams : \E status \in Statuses : startResponse(i, status)

StartRejected ==
    \E i \in DOMAIN streams : startRejected(i)

SocketClose ==
    \E k \in DOMAIN sockets : \E reason \in CloseReasons : socketClose(k, reason)

StopDone ==
    \E j \in DOMAIN stops : \E ok \in BOOLEAN : stopDone(j, ok)

ReplaceOnclose ==
    \E i \in DOMAIN streams : replaceOnclose(i)

Restart ==
    /\ Len(reboots) < MaxRestarts
    /\ restart

RestartDone ==
    \E j \in DOMAIN reboots : \E ok \in BOOLEAN : restartDone(j, ok)

Init ==
    /\ headRotation = << 0, 0 >>
    /\ framesToMoveHead = MoveHeadFrames - 1
    /\ framesToMoveBody = MoveBodyFrames - 1
    /\ frame = NoFrame
    /\ cmds = << >>
    /\ calls = MoveHeadFrames - 1
    /\ headSent = 0
    /\ driveSent = 0
    /\ commands = << >>
    /\ ws = 0
    /\ streams = << >>
    /\ sockets = << >>
    /\ stops = << >>
    /\ reboots = << >>

Next ==
    \/ UpdateRobot
    \/ GetVideoStream
    \/ StartResponse
    \/ StartRejected
    \/ SocketClose
    \/ StopDone
    \/ ReplaceOnclose
    \/ Restart
    \/ RestartDone

Spec ==
    Init /\ [][Next]_vars

\* A long run of frames on a fresh robot, beside one video stream and restart
UpdateCount ==
    /\ calls < MaxCalls
    /\ \E gamepad \in Drive : update(gamepad)

GetVideoStreamOnce ==
    /\ streams = << >>
    /\ getVideoStream

InitCount ==
    Constructed

NextCount ==
    \/ UpdateCount
    \/ GetVideoStreamOnce
    \/ StartResponse
    \/ StartRejected
    \/ SocketClose
    \/ StopDone
    \/ ReplaceOnclose
    \/ Restart
    \/ RestartDone

SpecCount ==
    InitCount /\ [][NextCount]_vars

----------------------------------------------------------------------------
(* One call of update on a new manager, with each stick holding a value on
   one axis and its negation on the other: every multiple of 0.001 in
   [-1, 1] is scaled beside its negation. *)

\* the axis values sampled: every multiple of 0.001 from minX to maxX
ScaleAxes ==
    minX..maxX

Mirrored ==
    { << v, -v, -v, v >> : v \in ScaleAxes }

UpdateMirrored ==
    /\ calls = 0
    /\ \E gamepad \in Mirrored : update(gamepad)

InitScale ==
    Constructed

NextScale ==
    UpdateMirrored

SpecScale ==
    InitScale /\ [][NextScale]_vars

----------------------------------------------------------------------------
(* The frames from one before the first commands to one after the second,
   the commands completing, or failing, at any time after they are issued. *)

UpdateDispatch ==
    /\ calls < MaxCalls
    /\ \E gamepad \in Rest : update(gamepad)

CommandDone ==
    \E j \in DOMAIN commands : \E ok \in BOOLEAN : commandDone(j, ok)

InitDispatch ==
    Init

NextDispatch ==
    \/ UpdateDispatch
    \/ CommandDone

SpecDispatch ==
    InitDispatch /\ [][NextDispatch]_vars

----------------------------------------------------------------------------
(* The claims. *)

HeadEmitted ==
    { n \in DOMAIN cmds : cmds[n].api = "head" }

DriveEmitted ==
    { n \in DOMAIN cmds : cmds[n].api = "drive" }

\* C1: on a fresh robot the n-th call of update issues a head command if and
\* only if n is a positive multiple of 180, and likewise a drive command; a
\* call issues at most one command per channel, so after n calls each channel
\* has issued exactly n div 180 commands, whatever the samples were.
C1_OnePer180Calls ==
    /\ HeadEmitted # {} <=> (calls > 0 /\ calls % 180 = 0)
    /\ DriveEmitted # {} <=> (calls > 0 /\ calls % 180 = 0)
    /\ Cardinality(HeadEmitted) <= 1
    /\ Cardinality(DriveEmitted) <= 1
    /\ headSent = calls \div 180
    /\ driveSent = calls \div 180

\* the 360th call has issued the second command of each channel
C1_Witness ==
    /\ calls = 360
    /\ HeadEmitted # {}
    /\ DriveEmitted # {}
    /\ headSent = 2
    /\ driveSent = 2

\* C2: both components of the head rotation lie in [-100, 100] in every state.
C2_HeadInRange ==
    \A i \in 1..2 :
        /\ headRotation[i] >= -100 * HeadUnit
        /\ headRotation[i] <= 100 * HeadUnit

\* a call whose accumulated value left the range, at either end, after other
\* calls had moved the head
C2_Witness ==
    /\ calls > 100
    /\ frame.unclamped[1] < -100 * HeadUnit
    /\ headRotation = << -100 * HeadUnit, -100 * HeadUnit >>

\* p is v (hundredths) with its fractional part dropped: truncation toward zero
IsTruncated(p, v) ==
    IF v >= 0
        THEN p >= 0 /\ p * 100 <= v /\ v < (p + 1) * 100
        ELSE p <= 0 /\ p * 100 >= v /\ v > (p - 1) * 100

\* C6: every head command a call of update issues carries the pitch
\* trunc(headRotation[1]), the yaw -trunc(headRotation[0]) and the velocity 100,
\* of the head rotation that same call has accumulated and clamped; pitch and
\* yaw are integers in [-100, 100].
C6_HeadCommandFields ==
    \A n \in HeadEmitted :
        /\ IsTruncated(cmds[n].Pitch, headRotation[2])
        /\ IsTruncated(-cmds[n].Yaw, headRotation[1])
        /\ cmds[n].Velocity = 100
        /\ cmds[n].Pitch \in -100..100
        /\ cmds[n].Yaw \in -100..100

\* a head command for a head rotation with a fractional part on both
\* components, negative on one, which the issuing call itself has moved
C6_Witness ==
    /\ HeadEmitted # {}
    /\ frame.headValues[1] # 0
    /\ frame.headValues[2] # 0
    /\ headRotation[1] > 0
    /\ headRotation[1] % 100 # 0
    /\ headRotation[2] < 0
    /\ headRotation[2] % 100 # 0
    /\ headRotation[1] # -headRotation[2]

\* the value update derives from the raw axis value v (thousandths): 0 inside
\* the deadzone of 0.1, else the largest integer not above 100 * v
ScaledAxis(v) ==
    IF -100 < v /\ v < 100
        THEN 0
        ELSE CHOOSE r \in -100..100 : r * 10 <= v /\ v < (r + 1) * 10

\* C7: every drive command a call of update issues carries as linearVelocity
\* the scaled drive-Y (axis 1) and as angularVelocity the scaled drive-X (axis 0)
\* of the sample of that same call, both integers in [-100, 100]; the samples
\* of the calls before it have no effect.
C7_DriveCommandFields ==
    \A n \in DriveEmitted :
        /\ cmds[n].LinearVelocity = ScaledAxis(frame.gamepad[2])
        /\ cmds[n].AngularVelocity = ScaledAxis(frame.gamepad[1])
        /\ cmds[n].LinearVelocity \in -100..100
        /\ cmds[n].AngularVelocity \in -100..100

\* a drive command for a sample whose two drive axes scale to different values
C7_Witness ==
    /\ DriveEmitted # {}
    /\ frame.gamepad[1] = 550
    /\ frame.gamepad[2] = -755
    /\ \A n \in DriveEmitted :
           cmds[n].LinearVelocity = -76 /\ cmds[n].AngularVelocity = 55

\* Deadzones (thousandths) other than the one the class is built with
Deadzones ==
    {0, 1, 99, 100, 101, 755, 1000}

\* C8: each of the four axes is filtered on its own: a raw value strictly
\* inside (-deadzone, deadzone) becomes 0, any other value, the two boundary
\* values included, passes unchanged; the values that are scaled are the
\* filtered ones.  readAnalogSticks does the same to the sample of the call
\* for any other deadzone it could be handed.
C8_Deadzone ==
    /\ \A i \in 1..4 :
           LET v == frame.gamepad[i]
           IN  IF -deadzone < v /\ v < deadzone
                   THEN frame.stickValues[i] = 0
                   ELSE frame.stickValues[i] = v
    /\ \A i \in 1..2 :
           /\ (-deadzone < frame.gamepad[i] /\ frame.gamepad[i] < deadzone
                   => frame.driveValues[i] = 0)
           /\ (-deadzone < frame.gamepad[i + 2] /\ frame.gamepad[i + 2] < deadzone
                   => frame.headValues[i] = 0)
    /\ \A d \in Deadzones : \A i \in 1..4 :
           LET v == frame.gamepad[i]
           IN  readAnalogSticks(frame.gamepad, d)[i] = IF -d < v /\ v < d THEN 0 ELSE v

\* a sample with an axis on the boundary and an axis just inside it
C8_Witness ==
    /\ frame.gamepad = << 100, -99, -1000, -1000 >>
    /\ frame.stickValues = << 100, 0, -1000, -1000 >>
    /\ frame.driveValues = << 10, 0 >>

\* r = floor((v + 1) / 2 * 200 - 100) for the axis value v held in thousandths
IsScaled(r, v) ==
    /\ r * (2 * 1000) <= (v + 1000) * 200 - 100 * (2 * 1000)
    /\ (v + 1000) * 200 - 100 * (2 * 1000) < (r + 1) * (2 * 1000)

StopsFor(k) ==
    { j \in DOMAIN stops : stops[j].socket = k }

\* C3: a start the robot answers OK, to a request carrying port 5678, rotation
\* 90 and the width, height and quality, returns one socket; no stop request is
\* issued for it while it stays open, and once it has closed, for whatever
\* reason, exactly one has been.
C3_OneStopPerClose ==
    \A i \in DOMAIN streams :
        streams[i].status = 200 =>
            /\ streams[i].phase = "returned"
            /\ streams[i].requests =
                   << [Port |-> 5678, Rotation |-> 90, Width |-> imageWidth,
                       Height |-> imageHeight, Quality |-> videoQuality] >>
            /\ streams[i].socket \in DOMAIN sockets
            /\ \A h \in DOMAIN streams :
                   h # i => streams[h].socket # streams[i].socket
            /\ sockets[streams[i].socket].readyState # "closed"
                   => StopsFor(streams[i].socket) = {}
            /\ sockets[streams[i].socket].readyState = "closed"
                   => Cardinality(StopsFor(streams[i].socket)) = 1

\* C4: a start the robot answers with any status but success throws to its
\* caller; that call opens no socket, leaves this.ws and every socket as they
\* were, issues no stop request and no second start request, and stays failed.
C4_FailedStart ==
    [][\A i \in DOMAIN streams :
           /\ (streams[i].phase = "fetching" /\ streams'[i].status \notin {0, 200})
                  => /\ streams'[i].phase = "thrown"
                     /\ streams'[i].error = "Failed to start video stream."
                     /\ streams'[i].socket = 0
                     /\ streams'[i].requests = streams[i].requests
                     /\ Len(streams[i].requests) = 1
                     /\ UNCHANGED << ws, sockets, stops >>
           /\ streams[i].phase = "thrown" => streams'[i] = streams[i]
      ]_vars

\* a start failed on a 404 while the socket of an earlier start is open and
\* this.ws still refers to it
C4_Witness ==
    \E i \in DOMAIN streams :
        /\ streams[i].phase = "thrown"
        /\ streams[i].status = 404
        /\ ws = 1
        /\ Len(sockets) = 1
        /\ sockets[1].readyState = "open"
        /\ stops = << >>

\* The state of the session of the i-th call of getVideoStream
SessionState(strs, socks, stps, i) ==
    IF i \notin DOMAIN strs THEN "Idle"
    ELSE IF strs[i].phase = "fetching" THEN "Starting"
    ELSE IF strs[i].phase = "thrown" THEN "Closed"
    ELSE IF socks[strs[i].socket].readyState # "closed" THEN "Active"
    ELSE IF \E j \in DOMAIN stps :
                stps[j].socket = strs[i].socket /\ stps[j].phase = "pending"
         THEN "Closing"
    ELSE "Closed"

SessionMoves ==
    { << "Idle", "Starting" >>, << "Starting", "Active" >>,
      << "Starting", "Closed" >>, << "Active", "Closing" >>,
      << "Closing", "Closed" >> }

\* C5: a session only moves Idle -> Starting -> Active -> Closing -> Closed, or
\* Starting -> Closed when the start fails; the close of an Active session's
\* socket takes it to Closing, and the end of the stop request, successful or
\* not, takes it to Closed and changes nothing its caller sees.
C5_SessionMoves ==
    [][\A i \in 1..MaxStarts :
           LET old == SessionState(streams, sockets, stops, i)
               new == SessionState(streams', sockets', stops', i)
           IN  /\ old # new => << old, new >> \in SessionMoves
               /\ (old = "Active" /\ sockets'[streams[i].socket].readyState = "closed")
                      => new = "Closing"
               /\ (old = "Closing" /\ new = "Closed") => streams' = streams
      ]_vars

\* C10: a call of restart issues exactly one request, with Core false and
\* SensoryServices true, whatever the state it is called in; the request is
\* never issued again, and the call leaves the head rotation, the two frame
\* counters, this.ws and the sockets and sessions as they were.
C10_Restart ==
    [][/\ \A j \in DOMAIN reboots :
              /\ reboots[j].requests = << [Core |-> FALSE, SensoryServices |-> TRUE] >>
              /\ reboots'[j].requests = reboots[j].requests
       /\ Len(reboots') # Len(reboots)
              => /\ Len(reboots') = Len(reboots) + 1
                 /\ reboots'[Len(reboots')].requests =
                        << [Core |-> FALSE, SensoryServices |-> TRUE] >>
                 /\ UNCHANGED << headRotation, framesToMoveHead, framesToMoveBody,
                                 ws, streams, sockets, stops >>
      ]_vars

\* a restart whose request failed, made on a robot with an open socket, a
\* closed one and a command already issued
C10_Witness ==
    /\ Len(reboots) = 1
    /\ reboots[1].phase = "rejected"
    /\ Len(reboots[1].requests) = 1
    /\ headSent = 1
    /\ \E k \in DOMAIN sockets : sockets[k].readyState = "open"
    /\ \E k \in DOMAIN sockets : sockets[k].readyState = "closed"

\* x (hundredths) cut to [-100, 100]
Clamped(x) ==
    IF x > 100 * 100 THEN 100 * 100 ELSE IF x < -100 * 100 THEN -100 * 100 ELSE x

\* C13: a call of update takes component 0 of the head rotation to
\* clamp(old0 + scaled(headX) * 0.02, -100, 100) and component 1 to
\* clamp(old1 + scaled(headY) * 0.02, -100, 100), headX and headY being the
\* filtered axes 2 and 3 of its sample; no component moves by more than 2, and
\* the drive axes 0 and 1 play no part.
C13_HeadStep ==
    [][calls' = calls + 1 =>
          \A i \in 1..2 :
              /\ headRotation'[i] =
                     Clamped(headRotation[i] + ScaledAxis(frame'.gamepad[i + 2]) * 2)
              /\ headRotation'[i] - headRotation[i] \in -200..200
      ]_vars

\* a call with both sticks pushed that moved the two components by different
\* amounts, one of them into the clamp
C13_Witness ==
    /\ frame.gamepad = << 99, -1, -1000, 550 >>
    /\ frame.unclamped[1] = -10150
    /\ headRotation[1] = -10000
    /\ frame.unclamped[2] = 160
    /\ headRotation[2] = 160

InsideDeadzone(g) ==
    \A i \in 1..4 : -100 < g[i] /\ g[i] < 100

\* C14: a call of update whose four raw axes all lie strictly inside the
\* deadzone leaves the head rotation as it was, and a drive command it issues
\* carries 0 and 0; of the fields of the robot only the frame counters change.
C14_RestingSticks ==
    [][(calls' = calls + 1 /\ InsideDeadzone(frame'.gamepad)) =>
          /\ headRotation' = headRotation
          /\ \A n \in DOMAIN cmds' :
                 cmds'[n].api = "drive" =>
                     cmds'[n].LinearVelocity = 0 /\ cmds'[n].AngularVelocity = 0
          /\ UNCHANGED << ws, streams, sockets, stops, reboots >>
      ]_vars

\* a call that issued its commands on four small non-zero axis values, two of
\* them negative, with the head off centre
C14_Witness ==
    /\ frame.gamepad = << 99, -1, -99, 1 >>
    /\ DriveEmitted # {}
    /\ \A n \in DriveEmitted :
           cmds[n].LinearVelocity = 0 /\ cmds[n].AngularVelocity = 0
    /\ headRotation = << 50, -150 >>
    /\ frame.unclamped = << 50, -150 >>

\* C16: between calls of update each frame counter is the number of calls
\* since the last command of its channel, or since construction: it starts at
\* 0, a call that issues the command leaves it 0, any other call adds 1, and no
\* other operation changes it; it always lies in 0..179.
C16_FrameCounters ==
    /\ framesToMoveHead = 0
    /\ framesToMoveBody = 0
    /\ [](/\ framesToMoveHead \in 0..179
          /\ framesToMoveBody \in 0..179)
    /\ [][IF calls' = calls + 1
              THEN /\ framesToMoveHead' =
                          IF HeadEmitted' # {} THEN 0 ELSE framesToMoveHead + 1
                   /\ framesToMoveBody' =
                          IF DriveEmitted' # {} THEN 0 ELSE framesToMoveBody + 1
              ELSE UNCHANGED << framesToMoveHead, framesToMoveBody >>
         ]_vars

\* the counters one call before the second command, after a restart, a video
\* stream and the close of its socket
C16_Witness ==
    /\ framesToMoveHead = 179
    /\ framesToMoveBody = 179
    /\ headSent = 1
    /\ calls = 359
    /\ Len(reboots) = 1
    /\ \E k \in DOMAIN sockets : sockets[k].readyState = "closed"

\* C18: the two frame counters hold the same value in every state, so a head
\* command and a drive command are always issued by the same call of update,
\* the head command first; no call issues one without the other.
C18_CountersInStep ==
    /\ framesToMoveHead = framesToMoveBody
    /\ HeadEmitted # {} <=> DriveEmitted # {}
    /\ cmds # << >> =>
           /\ Len(cmds) = 2
           /\ cmds[1].api = "head"
           /\ cmds[2].api = "drive"
    /\ headSent = driveSent

\* the call that issued the second pair of commands
C18_Witness ==
    /\ calls = 360
    /\ Len(cmds) = 2
    /\ cmds[1].api = "head"
    /\ cmds[2].api = "drive"
    /\ framesToMoveHead = 0
    /\ framesToMoveBody = 0
    /\ headSent = 2

\* the multiples of 0.01 at which v or -v is scaled one below 100 * v
SlipPairs ==
    { 130, 150, 160, 340, 550, 560, 570, 820,
      -130, -150, -160, -340, -550, -560, -570, -820 }

\* a = scale(v) and b = scale(-v), v in thousandths, as the claim states them
MirrorLaw(v, a, b) ==
    /\ v % 10 = 0 => b = -a
    /\ v % 10 # 0 => b = -a - 1

\* the same with the multiples of 0.01 that the double arithmetic lowers
MirrorLawOfDoubles(v, a, b) ==
    /\ (v % 10 = 0 /\ v \notin SlipPairs) => b = -a
    /\ (v % 10 = 0 /\ v \in SlipPairs) => b = -a - 1
    /\ v % 10 # 0 => b = -a - 1

\* a is no greater than 100 * v, and is below the nearest integer wherever
\* rounding to nearest would round up
NotRounded(v, a) ==
    /\ a * 10 <= v
    /\ v % 10 >= 5 => a = Floor(v + 5, 10) - 1

\* C15 as stated: scale(-v) = -scale(v) when 100 * v is an integer, and
\* scale(-v) = -scale(v) - 1 otherwise.  The code breaks it at v = 0.13,
\* where it returns 12 and -13.
C15_AsStated ==
    /\ MirrorLaw(frame.stickValues[1], frame.driveValues[1], frame.driveValues[2])
    /\ MirrorLaw(frame.stickValues[4], frame.headValues[2], frame.headValues[1])

\* C15: floor-based scaling is asymmetric.  For v a multiple of 0.001 in
\* [-1, 1], scale(-v) = -scale(v) - 1 when 100 * v is no integer, and also
\* when 100 * v is an integer and v or -v is one of -0.56, -0.55, -0.34,
\* 0.13, 0.15, 0.16, 0.57, 0.82; at every other v with 100 * v an integer
\* scale(-v) = -scale(v).  The result is never above 100 * v, so it is never
\* the nearest integer where that lies above.
C15_FloorAsymmetry ==
    /\ frame.stickValues[2] = -frame.stickValues[1]
    /\ frame.stickValues[3] = -frame.stickValues[4]
    /\ MirrorLawOfDoubles(frame.stickValues[1], frame.driveValues[1], frame.driveValues[2])
    /\ MirrorLawOfDoubles(frame.stickValues[4], frame.headValues[2], frame.headValues[1])
    /\ \A i \in 1..2 :
           /\ NotRounded(frame.stickValues[i], frame.driveValues[i])
           /\ NotRounded(frame.stickValues[i + 2], frame.headValues[i])
    /\ \A v \in (-deadzone)..deadzone :
           /\ MirrorLawOfDoubles(v, scale(v), scale(-v))
           /\ NotRounded(v, scale(v))

\* the sample 0.13 beside -0.13: 12 and -13
C15_Witness ==
    /\ calls = 1
    /\ frame.gamepad = << 130, -130, -130, 130 >>
    /\ frame.driveValues = << 12, -13 >>
    /\ frame.headValues = << -13, 12 >>

\* what C12 says of two calls of getVideoStream, the close of their sockets
\* apart: getVideoStream can be called in every state; a call issues its own
\* request at once and leaves the calls before it as they are; a call that
\* is answered with 200 opens a socket of its own, leaves the sockets before
\* it as they are and stores its socket in ws, so that ws is the socket of
\* the call that completed last
C12_TwoStarts ==
    /\ [](ENABLED getVideoStream)
    /\ [](ws = Len(sockets))
    /\ [](\A i \in DOMAIN streams : streams[i].requests = << StartRequest >>)
    /\ [][Len(streams') = Len(streams) + 1 =>
              /\ streams'[Len(streams')].phase = "fetching"
              /\ streams'[Len(streams')].requests = << StartRequest >>
              /\ \A i \in DOMAIN streams : streams'[i] = streams[i]
         ]_vars
    /\ [][\A i \in DOMAIN streams :
              (streams[i].phase = "fetching" /\ streams'[i].phase = "returned") =>
                  /\ Len(sockets') = Len(sockets) + 1
                  /\ sockets'[Len(sockets')].readyState = "open"
                  /\ streams'[i].socket = Len(sockets')
                  /\ ws' = Len(sockets')
                  /\ \A k \in DOMAIN sockets : sockets'[k] = sockets[k]
         ]_vars

\* C12: getVideoStream has no guard: a second call while the first is still
\* waiting issues its own request; when both are answered with 200 two
\* sockets are open at once and ws is the socket of the call that completed
\* last; and the close of either socket issues a stop request, whatever the
\* state of the other.  The last part fails once the caller has assigned its
\* own handler to onclose.
C12_SecondStart ==
    /\ C12_TwoStarts
    /\ [][\A k \in DOMAIN sockets :
              (sockets[k].readyState = "open" /\ sockets'[k].readyState = "closed") =>
                  stops' = Append(stops, [socket |-> k, phase |-> "pending"])
         ]_vars

\* two sockets open at once, opened by two calls of which the second was
\* made while the first was waiting and was answered first
C12_TwoOpen ==
    /\ Len(streams) = 2
    /\ streams[1].phase = "returned" /\ streams[1].socket = 2
    /\ streams[2].phase = "returned" /\ streams[2].socket = 1
    /\ sockets[1].readyState = "open"
    /\ sockets[2].readyState = "open"
    /\ ws = 2

\* C19: a stop request is issued only by the handler getVideoStream installs,
\* when the socket closes with that handler still in onclose; the close of a
\* socket whose onclose the caller has replaced issues none, such a socket
\* never has a stop request, and its onclose never holds the handler of
\* getVideoStream again.
C19_StopOnlyByHandler ==
    /\ [](\A k \in DOMAIN sockets : sockets[k].onclose = "caller" => StopsFor(k) = {})
    /\ [][\A k \in DOMAIN sockets :
              (sockets[k].readyState = "open" /\ sockets'[k].readyState = "closed") =>
                  IF sockets[k].onclose = "stop"
                     THEN stops' = Append(stops, [socket |-> k, phase |-> "pending"])
                     ELSE stops' = stops
         ]_vars
    /\ [][Len(stops') > Len(stops) =>
              \E k \in DOMAIN sockets :
                  /\ sockets[k].readyState = "open"
                  /\ sockets'[k].readyState = "closed"
                  /\ sockets[k].onclose = "stop"
         ]_vars
    /\ [][\A k \in DOMAIN sockets :
              sockets[k].onclose = "caller" => sockets'[k].onclose = "caller"
         ]_vars

\* both sockets closed, the one whose handler the caller replaced without a
\* stop request, the other with one
C19_Witness ==
    /\ Len(sockets) = 2
    /\ sockets[1].readyState = "closed" /\ sockets[1].onclose = "caller"
    /\ sockets[2].readyState = "closed" /\ sockets[2].onclose = "stop"
    /\ StopsFor(1) = {}
    /\ Cardinality(StopsFor(2)) = 1

\* the step of a call of update, written on the fields of the robot and the
\* sample alone: the head rotation, the two counters and whether commands
\* are issued follow from their values before the call and the sample
MapperStep ==
    /\ \A i \in 1..2 :
           headRotation'[i] = Clamped(headRotation[i] + ScaledAxis(frame'.gamepad[i + 2]) * 2)
    /\ framesToMoveHead' = IF framesToMoveHead = 179 THEN 0 ELSE framesToMoveHead + 1
    /\ framesToMoveBody' = IF framesToMoveBody = 179 THEN 0 ELSE framesToMoveBody + 1
    /\ HeadEmitted' # {} <=> framesToMoveHead = 179
    /\ DriveEmitted' # {} <=> framesToMoveBody = 179
    /\ Len(cmds') = Cardinality(HeadEmitted') + Cardinality(DriveEmitted')

\* C17: update never waits for a command it issued: it can be called in
\* every state, whatever commands are in flight, and it leaves the commands
\* issued before as they are.  The counters, the head rotation and the frame
\* of the next commands follow from the fields and the sample alone, the
\* k-th pair of commands leaving with call 180 * k whether the commands
\* before it are in flight, done or failed.  The end of a command, success
\* or failure, changes no field and issues no command.
C17_FireAndForget ==
    /\ [](\A gamepad \in Rest : ENABLED update(gamepad))
    /\ [](/\ Len(commands) = headSent + driveSent
          /\ headSent = calls \div 180
          /\ driveSent = calls \div 180)
    /\ [][IF calls' = calls + 1
              THEN /\ MapperStep
                   /\ Len(commands') = Len(commands) + Len(cmds')
                   /\ \A j \in DOMAIN commands : commands'[j] = commands[j]
                   /\ \A j \in DOMAIN commands' \ DOMAIN commands :
                          commands'[j].phase = "pending"
              ELSE /\ UNCHANGED << headRotation, framesToMoveHead, framesToMoveBody,
                                  cmds, headSent, driveSent, calls >>
                   /\ Len(commands') = Len(commands)
                   /\ \A j \in DOMAIN commands :
                          /\ commands'[j].api = commands[j].api
                          /\ commands[j].phase # "pending" => commands'[j] = commands[j]
         ]_vars

\* the second pair of commands issued with the head command of the first
\* pair failed and its drive command still in flight, the head moved meanwhile
C17_Witness ==
    /\ calls = 360
    /\ Len(commands) = 4
    /\ commands[1].phase = "failed"
    /\ commands[2].phase = "pending"
    /\ commands[3].phase = "pending"
    /\ commands[4].phase = "pending"
    /\ Len(cmds) = 2
    /\ headRotation # << 0, 0 >>

\* C11: the head rotation, the counters and the commands of a call of update
\* follow from the fields before the call and its sample alone, and no call
\* of getVideoStream or restart, answer, close or stop request changes a
\* field update reads or writes: two runs given the same samples have the
\* same commands, head rotation and counters after each call, however the
\* steps of the video stream and of restart fall between the calls.  A call
\* of update changes nothing of the video stream or of restart.
C11_MapperApart ==
    [][IF calls' = calls + 1
          THEN /\ MapperStep
               /\ \A n \in HeadEmitted' :
                      /\ IsTruncated(cmds'[n].Pitch, headRotation'[2])
                      /\ IsTruncated(-cmds'[n].Yaw, headRotation'[1])
               /\ \A n \in DriveEmitted' :
                      /\ cmds'[n].LinearVelocity = ScaledAxis(frame'.gamepad[2])
                      /\ cmds'[n].AngularVelocity = ScaledAxis(frame'.gamepad[1])
               /\ UNCHANGED << ws, streams, sockets, stops, reboots >>
          ELSE UNCHANGED << headRotation, framesToMoveHead, framesToMoveBody, frame,
                            cmds, calls, headSent, driveSent, commands >>
      ]_vars

\* two calls of update on the pushed sticks, the first issuing the commands,
\* beside a failed start, a socket opened and closed with its stop request
\* failed, and a restart in flight: the fields are those of the two calls alone
C11_Witness ==
    /\ calls = 181
    /\ headRotation = << 220, -400 >>
    /\ framesToMoveHead = 1
    /\ framesToMoveBody = 1
    /\ headSent = 1
    /\ driveSent = 1
    /\ Len(streams) = 2
    /\ streams[1].phase = "thrown"
    /\ streams[2].phase = "returned"
    /\ sockets[1].readyState = "closed"
    /\ Len(stops) = 1
    /\ stops[1].phase = "failed"
    /\ Len(reboots) = 1
    /\ reboots[1].phase = "fetching"

====
